---- MODULE Spec2Model ----
(***************************************************************************)
(* Loan Auditor: the App component of src/unnamed/part_000 as a state      *)
(* machine.  The useState cells are the                                    *)
(* variables, the event handlers and promise callbacks are the actions,    *)
(* and the useMemo values (masterData, availableColumns, idKey,            *)
(* auditResults, summaryColumns) are operators over the state.             *)
(*                                                                         *)
(* JavaScript strings are sequences of one-character strings, so that      *)
(* trim, toLowerCase, split, includes and the default sort order are       *)
(* computed and not assumed.  A JavaScript object is a sequence of         *)
(* <<key, value>> pairs in insertion order.                                *)
(***************************************************************************)
EXTENDS Integers, Sequences, FiniteSets, TLC

(***************************************************************************)
(* Strings                                                                 *)
(***************************************************************************)

\* The characters used, in UTF-16 code unit order.
Alphabet ==
  << " ", "#", ",", ".",
     "0", "1", "2", "3", "4", "5", "6", "7", "8", "9",
     "A", "B", "C", "D", "E", "F", "G", "H", "I", "J", "K", "L", "M",
     "N", "O", "P", "Q", "R", "S", "T", "U", "V", "W", "X", "Y", "Z",
     "_",
     "a", "b", "c", "d", "e", "f", "g", "h", "i", "j", "k", "l", "m",
     "n", "o", "p", "q", "r", "s", "t", "u", "v", "w", "x", "y", "z" >>

Upper ==
  << "A", "B", "C", "D", "E", "F", "G", "H", "I", "J", "K", "L", "M",
     "N", "O", "P", "Q", "R", "S", "T", "U", "V", "W", "X", "Y", "Z" >>

Lower ==
  << "a", "b", "c", "d", "e", "f", "g", "h", "i", "j", "k", "l", "m",
     "n", "o", "p", "q", "r", "s", "t", "u", "v", "w", "x", "y", "z" >>

Digits == << "0", "1", "2", "3", "4", "5", "6", "7", "8", "9" >>

Range(s) == { s[i] : i \in DOMAIN s }

\* Rank of a character in code unit order.
CharCode == [ c \in Range(Alphabet) |-> CHOOSE i \in DOMAIN Alphabet : Alphabet[i] = c ]

LowerOfChar ==
  [ c \in Range(Alphabet) |->
      IF c \in Range(Upper) THEN Lower[CHOOSE i \in DOMAIN Upper : Upper[i] = c] ELSE c ]

\* String.prototype.toLowerCase
ToLowerCase(s) == [ i \in DOMAIN s |-> LowerOfChar[s[i]] ]

IsWhiteSpace(c) == c = " "

RECURSIVE TrimStart(_)
TrimStart(s) ==
  IF s # << >> /\ IsWhiteSpace(Head(s)) THEN TrimStart(Tail(s)) ELSE s

RECURSIVE TrimEnd(_)
TrimEnd(s) ==
  IF s # << >> /\ IsWhiteSpace(s[Len(s)]) THEN TrimEnd(SubSeq(s, 1, Len(s) - 1)) ELSE s

\* String.prototype.trim
Trim(s) == TrimEnd(TrimStart(s))

\* String.prototype.split(','): the pieces between commas, empty pieces kept;
\* the empty string splits into one empty piece.
RECURSIVE SplitFrom(_, _)
SplitFrom(s, piece) ==
  IF s = << >> THEN << piece >>
  ELSE IF Head(s) = "," THEN << piece >> \o SplitFrom(Tail(s), << >>)
  ELSE SplitFrom(Tail(s), Append(piece, Head(s)))

SplitComma(s) == SplitFrom(s, << >>)

\* String.prototype.includes
Includes(s, sub) ==
  \E i \in 0 .. (Len(s) - Len(sub)) : SubSeq(s, i + 1, i + Len(sub)) = sub

\* a < b in the order of the default Array.prototype.sort comparator
\* (code unit by code unit, a proper prefix first).
RECURSIVE StrLess(_, _)
StrLess(a, b) ==
  IF b = << >> THEN FALSE
  ELSE IF a = << >> THEN TRUE
  ELSE IF Head(a) = Head(b) THEN StrLess(Tail(a), Tail(b))
  ELSE CharCode[Head(a)] < CharCode[Head(b)]

\* Array.from(set).sort() for a set of distinct strings.
RECURSIVE SortStrings(_)
SortStrings(S) ==
  IF S = {} THEN << >>
  ELSE LET m == CHOOSE x \in S : \A y \in S \ {x} : StrLess(x, y)
       IN  << m >> \o SortStrings(S \ {m})

(***************************************************************************)
(* JavaScript values and objects                                           *)
(***************************************************************************)

\* The value undefined: the one value that is not a string of Alphabet.
Undefined == << "undefined" >>

\* String(v)
String(v) ==
  IF v = Undefined THEN << "u", "n", "d", "e", "f", "i", "n", "e", "d" >> ELSE v

\* v || '' : undefined and the empty string are falsy, every other string is truthy.
OrEmpty(v) == IF v = Undefined \/ v = << >> THEN << >> ELSE v

\* The largest array index, 2^32 - 2, as a string.
MaxArrayIndex == << "4", "2", "9", "4", "9", "6", "7", "2", "9", "4" >>

\* A property key that is an array index: a canonical decimal numeral
\* below 2^32 - 1.  Such keys are enumerated first, in numeric order.
IsArrayIndex(k) ==
  /\ k # << >>
  /\ \A i \in DOMAIN k : k[i] \in Range(Digits)
  /\ (Len(k) > 1 => k[1] # "0")
  /\ \/ Len(k) < Len(MaxArrayIndex)
     \/ Len(k) = Len(MaxArrayIndex) /\ ~StrLess(MaxArrayIndex, k)

\* Numeric order of two array-index keys.
IndexLess(a, b) ==
  \/ Len(a) < Len(b)
  \/ Len(a) = Len(b) /\ StrLess(a, b)

RECURSIVE SortIndexKeys(_)
SortIndexKeys(S) ==
  IF S = {} THEN << >>
  ELSE LET m == CHOOSE x \in S : \A y \in S \ {x} : IndexLess(x, y)
       IN  << m >> \o SortIndexKeys(S \ {m})

\* An object is a sequence of <<key, value>> pairs, distinct keys, in insertion order.
InsertionKeys(o) == [ i \in DOMAIN o |-> o[i][1] ]

HasOwn(o, k) == \E i \in DOMAIN o : o[i][1] = k

\* o[k] for an own property, undefined otherwise.
Get(o, k) ==
  IF HasOwn(o, k) THEN o[CHOOSE i \in DOMAIN o : o[i][1] = k][2] ELSE Undefined

\* o[k] = v : an existing property keeps its place, a new one is added last.
Put(o, k, v) ==
  IF HasOwn(o, k)
  THEN [ i \in DOMAIN o |-> IF o[i][1] = k THEN << k, v >> ELSE o[i] ]
  ELSE Append(o, << k, v >>)

\* Object.keys(o): array-index keys in ascending numeric order, then the
\* other keys in insertion order.
ObjectKeys(o) ==
  LET ks == InsertionKeys(o)
      NotIndex(k) == ~IsArrayIndex(k)
  IN  SortIndexKeys({ k \in Range(ks) : IsArrayIndex(k) }) \o SelectSeq(ks, NotIndex)

\* Object.values(o)
ObjectValues(o) ==
  LET ks == ObjectKeys(o) IN [ i \in DOMAIN ks |-> Get(o, ks[i]) ]

\* Names that every object literal inherits from Object.prototype; reading one
\* of them from an object without such an own property gives a function or an
\* object (a truthy value that is no array).
ObjectPrototypeKeys ==
  { << "c", "o", "n", "s", "t", "r", "u", "c", "t", "o", "r" >>,
    << "_", "_", "p", "r", "o", "t", "o", "_", "_" >>,
    << "t", "o", "S", "t", "r", "i", "n", "g" >>,
    << "v", "a", "l", "u", "e", "O", "f" >> }

(***************************************************************************)
(* Strings of the program text                                             *)
(***************************************************************************)

\* 'Found_In_File', the reserved source-file field
FoundInFile == << "F", "o", "u", "n", "d", "_", "I", "n", "_", "F", "i", "l", "e" >>

\* the three needles of the identifier auto-detection
NeedleLoanSpaceHash == << "l", "o", "a", "n", " ", "#" >>
NeedleLoanHash == << "l", "o", "a", "n", "#" >>
NeedleLoanNumber == << "l", "o", "a", "n", " ", "n", "u", "m", "b", "e", "r" >>

\* useState('275032'), the initial primary query
InitialQuery == << "2", "7", "5", "0", "3", "2" >>

(***************************************************************************)
(* Inputs: the files a user can select, as the CSV decoder reports them    *)
(* (results.data: one object per line, header names as keys, every value a *)
(* string, a short line lacking its trailing fields).                      *)
(***************************************************************************)

cLoanNumber == << "L", "o", "a", "n", "N", "u", "m", "b", "e", "r" >>
cStatus == << "S", "t", "a", "t", "u", "s" >>
cLoanHash == << "L", "o", "a", "n", "#" >>
cAltLoanHash == << "A", "l", "t", " ", "L", "o", "a", "n", "#" >>

v100 == << "1", "0", "0" >>
v200 == << "2", "0", "0" >>
vSp100 == << " ", "1", "0", "0" >>
vOpen == << "O", "p", "e", "n" >>
vClosed == << "C", "l", "o", "s", "e", "d" >>
vConstructor == << "c", "o", "n", "s", "t", "r", "u", "c", "t", "o", "r" >>
vX == << "X" >>

FileA ==
  [ name |-> << "A", ".", "c", "s", "v" >>,
    rows |-> << << << cLoanNumber, v100 >>, << cStatus, vOpen >> >> >> ]

FileB ==
  [ name |-> << "B", ".", "c", "s", "v" >>,
    rows |-> << << << cLoanNumber, v100 >>, << cStatus, vClosed >> >> >> ]

\* several loans, a short line, an empty cell, a padded and an empty identifier
FileC ==
  [ name |-> << "C", ".", "c", "s", "v" >>,
    rows |-> << << << cLoanNumber, v200 >>, << cStatus, vOpen >> >>,
                << << cLoanNumber, v100 >>, << cStatus, vOpen >> >>,
                << << cLoanNumber, v100 >> >>,
                << << cLoanNumber, v100 >>, << cStatus, << >> >> >>,
                << << cLoanNumber, vSp100 >>, << cStatus, vOpen >> >>,
                << << cLoanNumber, << >> >>, << cStatus, vOpen >> >> >> ]

\* two loan-number columns and a header that is the reserved field's name
FileD ==
  [ name |-> << "D", ".", "c", "s", "v" >>,
    rows |-> << << << cLoanHash, v100 >>, << cAltLoanHash, v200 >>,
                   << FoundInFile, vX >> >>,
                << << cLoanHash, vSp100 >>, << cAltLoanHash, v200 >> >> >> ]

\* an identifier that is the name of an inherited object property
FileE ==
  [ name |-> << "E", ".", "c", "s", "v" >>,
    rows |-> << << << cLoanNumber, vConstructor >>, << cStatus, vOpen >> >> >> ]

\* a file whose only header is the reserved field's name
FileF ==
  [ name |-> << "F", ".", "c", "s", "v" >>,
    rows |-> << << << FoundInFile, vX >> >> >> ]

Catalogue == << FileA, FileB, FileC, FileD, FileE, FileF >>

\* what a user can type into the primary query box
qEmpty == << >>
q100 == << "1", "0", "0" >>
q100Comma == << "1", "0", "0", "," >>
q200And100 == << "2", "0", "0", ",", "1", "0", "0" >>
qConstructor == << "C", "o", "n", "s", "t", "r", "u", "c", "t", "o", "r" >>

qBlank == << " " >>

Queries == { InitialQuery, qEmpty, qBlank, q100, q100Comma, q200And100, qConstructor }

\* what a user can type into a secondary filter's value box
fOpen == << "o", "p", "e", "n" >>
fOpenComma == << "O", "p", "e", "n", "," >>

fBlank == << " " >>

FilterValues == { << >>, fBlank, fOpen, fOpenComma }

\* the ids Math.random().toString(36).substr(2, 9) gives to the filters the
\* user keeps at a time
FilterIds == { 1 }

\* the number of files, loaded or being read, that Spec follows
MaxFiles == 2

\* the number of files, loaded or being read, that SpecIngest follows
MaxIngest == 3

\* the catalogue entries SpecIngest uploads: A.csv and B.csv
IngestEntries == { 1, 2 }

(***************************************************************************)
(* State                                                                   *)
(***************************************************************************)

VARIABLES
  files,              \* useState<FileData[]>([])
  primaryQuery,       \* useState('275032')
  additionalFilters,  \* useState<AuditFilter[]>([])
  loading,            \* useState(false)
  uploads             \* the processFiles calls whose Promise.all has not settled

vars == << files, primaryQuery, additionalFilters, loading, uploads >>

\* a promise whose resolve has not been called carries no value
NoValue == [ name |-> << >>, data |-> << >> ]

(***************************************************************************)
(* processFiles                                                            *)
(***************************************************************************)

\* The body of results.data.map: newRow starts as { Found_In_File: file.name }
\* and then receives every key of the decoded row, in Object.keys order.
RECURSIVE CopyKeys(_, _, _)
CopyKeys(newRow, row, ks) ==
  IF ks = << >> THEN newRow
  ELSE CopyKeys(Put(newRow, Head(ks), Get(row, Head(ks))), row, Tail(ks))

NewRow(fileName, row) ==
  CopyKeys(<< << FoundInFile, fileName >> >>, row, ObjectKeys(row))

\* The value the complete callback resolves the file's promise with.
CompleteValue(file) ==
  [ name |-> file.name,
    data |-> [ i \in DOMAIN file.rows |-> NewRow(file.name, file.rows[i]) ] ]

\* processFiles(uploadedFiles) up to the creation of the promises: every file
\* gets a promise and a Papa.parse call with a complete callback only.  The
\* field stale is history, not read by any action: it records that Clear was
\* pressed while the upload was pending.
ProcessFiles(picked) ==
  /\ Len(picked) > 0
  /\ loading' = TRUE
  /\ uploads' = Append(uploads,
                  [ picked   |-> picked,
                    stale    |-> FALSE,
                    promises |-> [ i \in DOMAIN picked |->
                                     [ state |-> "parsing", value |-> NoValue ] ] ])
  /\ UNCHANGED << files, primaryQuery, additionalFilters >>

\* Papa.parse finishes file i of upload u and calls complete, which resolves
\* the file's promise.
ParseComplete(u, i) ==
  /\ uploads[u].promises[i].state = "parsing"
  /\ uploads' = [ uploads EXCEPT ![u].promises[i] =
                    [ state |-> "fulfilled",
                      value |-> CompleteValue(Catalogue[uploads[u].picked[i]]) ] ]
  /\ UNCHANGED << files, primaryQuery, additionalFilters, loading >>

\* The decoder fails on file i of upload u (the file cannot be read).  The
\* parse configuration has no error callback and the promise executor takes
\* no reject: complete is not called and the promise stays pending for good.
ParseError(u, i) ==
  /\ uploads[u].promises[i].state = "parsing"
  /\ uploads' = [ uploads EXCEPT ![u].promises[i].state = "abandoned" ]
  /\ UNCHANGED << files, primaryQuery, additionalFilters, loading >>

RemoveAt(s, i) == SubSeq(s, 1, i - 1) \o SubSeq(s, i + 1, Len(s))

\* Promise.all(filePromises).then: runs once every promise of the upload is
\* fulfilled; appends the results to the list and clears the loading flag.
PromiseAllThenAnyFulfilled(u) ==
  LET IsFulfilled(p) == p.state = "fulfilled"
      done == SelectSeq(uploads[u].promises, IsFulfilled)
  IN  /\ done # << >>
      /\ files' = files \o [ i \in DOMAIN done |-> done[i].value ]
      /\ loading' = FALSE
      /\ uploads' = RemoveAt(uploads, u)
      /\ UNCHANGED << primaryQuery, additionalFilters >>

PromiseAllThenPrepending(u) ==
  /\ \A i \in DOMAIN uploads[u].promises : uploads[u].promises[i].state = "fulfilled"
  /\ files' = [ i \in DOMAIN uploads[u].promises |-> uploads[u].promises[i].value ] \o files
  /\ loading' = FALSE
  /\ uploads' = RemoveAt(uploads, u)
  /\ UNCHANGED << primaryQuery, additionalFilters >>

PromiseAllThen(u) ==
  /\ \A i \in DOMAIN uploads[u].promises : uploads[u].promises[i].state = "fulfilled"
  /\ files' = files \o [ i \in DOMAIN uploads[u].promises |-> uploads[u].promises[i].value ]
  /\ loading' = FALSE
  /\ uploads' = RemoveAt(uploads, u)
  /\ UNCHANGED << primaryQuery, additionalFilters >>

\* The Clear button, rendered while files.length > 0: setFiles([]).  Pending
\* uploads are left as they are, but for the history field.
ClearFiles ==
  /\ Len(files) > 0
  /\ files' = << >>
  /\ uploads' = [ u \in DOMAIN uploads |-> [ uploads[u] EXCEPT !.stale = TRUE ] ]
  /\ UNCHANGED << primaryQuery, additionalFilters, loading >>

\* removeFile(index) of the file list of src/App.tsx
RemoveFile(index) ==
  /\ index \in DOMAIN files
  /\ files' = RemoveAt(files, index)
  /\ UNCHANGED << primaryQuery, additionalFilters, loading, uploads >>

\* the primary query box
SetPrimaryQuery(q) ==
  /\ q # primaryQuery
  /\ primaryQuery' = q
  /\ UNCHANGED << files, additionalFilters, loading, uploads >>

(***************************************************************************)
(* Derived values (useMemo)                                                *)
(***************************************************************************)

RECURSIVE FlatMapDataPrepending(_)
FlatMapDataPrepending(fs) ==
  IF fs = << >> THEN << >> ELSE FlatMapDataPrepending(Tail(fs)) \o Head(fs).data

RECURSIVE FlatMapData(_)
FlatMapData(fs) ==
  IF fs = << >> THEN << >> ELSE Head(fs).data \o FlatMapData(Tail(fs))

\* files.flatMap(f => f.data)
masterData == FlatMapData(files)

\* The keys other than Found_In_File in the order in which the Set meets them.
RECURSIVE AddKeys(_, _)
AddKeys(cols, ks) ==
  IF ks = << >> THEN cols
  ELSE IF Head(ks) # FoundInFile /\ Head(ks) \notin Range(cols)
       THEN AddKeys(Append(cols, Head(ks)), Tail(ks))
       ELSE AddKeys(cols, Tail(ks))

RECURSIVE DiscoveredColumns(_, _)
DiscoveredColumns(cols, rows) ==
  IF rows = << >> THEN cols
  ELSE DiscoveredColumns(AddKeys(cols, ObjectKeys(Head(rows))), Tail(rows))

\* Array.from(cols).sort()
AvailableColumns(rows) == SortStrings(Range(DiscoveredColumns(<< >>, rows)))

availableColumns == AvailableColumns(masterData)

Null == << "null" >>

IsLoanColumn(k) ==
  LET lk == ToLowerCase(k)
  IN  \/ Includes(lk, NeedleLoanSpaceHash)
      \/ Includes(lk, NeedleLoanHash)
      \/ Includes(lk, NeedleLoanNumber)

IdKeyWithoutFallback(columns) ==
  IF \E i \in DOMAIN columns : IsLoanColumn(columns[i])
  THEN columns[CHOOSE i \in DOMAIN columns :
                 /\ IsLoanColumn(columns[i])
                 /\ \A j \in 1 .. (i - 1) : ~IsLoanColumn(columns[j])]
  ELSE Null

\* availableColumns.find(...) || availableColumns[0], null without columns
IdKey(columns) ==
  IF Len(columns) = 0 THEN Null
  ELSE IF \E i \in DOMAIN columns : IsLoanColumn(columns[i])
       THEN columns[CHOOSE i \in DOMAIN columns :
                      /\ IsLoanColumn(columns[i])
                      /\ \A j \in 1 .. (i - 1) : ~IsLoanColumn(columns[j])]
       ELSE columns[1]

idKey == IdKey(availableColumns)

(***************************************************************************)
(* Secondary filters                                                       *)
(***************************************************************************)

FilterIndex(id) == CHOOSE i \in DOMAIN additionalFilters : additionalFilters[i].id = id

\* addFilter, behind a button that is disabled without columns
AddFilter(id) ==
  /\ Len(availableColumns) # 0
  /\ \A i \in DOMAIN additionalFilters : additionalFilters[i].id # id
  /\ additionalFilters' =
       Append(additionalFilters,
              [ id |-> id, column |-> OrEmpty(availableColumns[1]), value |-> << >> ])
  /\ UNCHANGED << files, primaryQuery, loading, uploads >>

\* removeFilter(id)
RemoveFilter(id) ==
  /\ \E i \in DOMAIN additionalFilters : additionalFilters[i].id = id
  /\ additionalFilters' = RemoveAt(additionalFilters, FilterIndex(id))
  /\ UNCHANGED << files, primaryQuery, loading, uploads >>

\* updateFilter(id, { column }) from the select, whose options are availableColumns
UpdateFilterColumn(id, column) ==
  /\ \E i \in DOMAIN additionalFilters : additionalFilters[i].id = id
  /\ column \in Range(availableColumns)
  /\ additionalFilters[FilterIndex(id)].column # column
  /\ additionalFilters' = [ additionalFilters EXCEPT ![FilterIndex(id)].column = column ]
  /\ UNCHANGED << files, primaryQuery, loading, uploads >>

\* updateFilter(id, { value }) from the value box
UpdateFilterValue(id, value) ==
  /\ \E i \in DOMAIN additionalFilters : additionalFilters[i].id = id
  /\ additionalFilters[FilterIndex(id)].value # value
  /\ additionalFilters' = [ additionalFilters EXCEPT ![FilterIndex(id)].value = value ]
  /\ UNCHANGED << files, primaryQuery, loading, uploads >>

(***************************************************************************)
(* auditResults: filter, grouping, diff                                    *)
(***************************************************************************)

\* q.split(',').map(v => v.trim().toLowerCase())
AcceptedValues(q) ==
  LET pieces == SplitComma(q)
  IN  [ i \in DOMAIN pieces |-> ToLowerCase(Trim(pieces[i])) ]

\* String(row[column] || '').toLowerCase()
RowValue(row, column) == ToLowerCase(String(OrEmpty(Get(row, column))))

\* values.some(v => rowVal === v)
MatchesQuery(row, column, q) ==
  LET values == AcceptedValues(q)
  IN  \E i \in DOMAIN values : RowValue(row, column) = values[i]

HasPrimaryQueryUntrimmed(q) == q # << >>

HasPrimaryQuery(q) == Trim(q) # << >>

IsActiveUntrimmed(f) == f.column # << >> /\ f.value # << >>

IsActive(f) == f.column # << >> /\ Trim(f.value) # << >>

ActiveAdditional(filters) == SelectSeq(filters, IsActive)

\* the callback of masterData.filter
Retained(row, key, q, filters) ==
  /\ HasPrimaryQuery(q) => MatchesQuery(row, key, q)
  /\ \A i \in DOMAIN ActiveAdditional(filters) :
       MatchesQuery(row, ActiveAdditional(filters)[i].column,
                    ActiveAdditional(filters)[i].value)

FilteredNewestFirst(rows, key, q, filters) ==
  LET Keep(row) == Retained(row, key, q, filters)
      kept == SelectSeq(rows, Keep)
  IN  [ p \in DOMAIN kept |-> kept[Len(kept) + 1 - p] ]

Filtered(rows, key, q, filters) ==
  LET Keep(row) == Retained(row, key, q, filters)
  IN  SelectSeq(rows, Keep)

\* String(row[idKey])
GroupId(row, key) == String(Get(row, key))

\* filtered.forEach(row => { if (!grouped[gid]) grouped[gid] = []; grouped[gid].push(row) })
\* on grouped = {}.  A gid that names an inherited property and is no own
\* property reads as truthy, so no array is stored and .push is not a function:
\* the callback throws a TypeError.
RECURSIVE GroupRowsUnshift(_, _, _)
GroupRowsUnshift(grouped, rows, key) ==
  IF rows = << >> THEN [ threw |-> FALSE, grouped |-> grouped ]
  ELSE LET row == Head(rows)
           gid == GroupId(row, key)
       IN  IF HasOwn(grouped, gid)
           THEN GroupRowsUnshift(Put(grouped, gid, << row >> \o Get(grouped, gid)),
                                 Tail(rows), key)
           ELSE IF gid \in ObjectPrototypeKeys
                THEN [ threw |-> TRUE, grouped |-> grouped ]
                ELSE GroupRowsUnshift(Put(grouped, gid, << row >>), Tail(rows), key)

RECURSIVE GroupRowsOverwriting(_, _, _)
GroupRowsOverwriting(grouped, rows, key) ==
  IF rows = << >> THEN [ threw |-> FALSE, grouped |-> grouped ]
  ELSE LET row == Head(rows)
           gid == GroupId(row, key)
       IN  IF ~HasOwn(grouped, gid) /\ gid \in ObjectPrototypeKeys
           THEN [ threw |-> TRUE, grouped |-> grouped ]
           ELSE GroupRowsOverwriting(Put(grouped, gid, << row >>), Tail(rows), key)

RECURSIVE GroupRows(_, _, _)
GroupRows(grouped, rows, key) ==
  IF rows = << >> THEN [ threw |-> FALSE, grouped |-> grouped ]
  ELSE LET row == Head(rows)
           gid == GroupId(row, key)
       IN  IF HasOwn(grouped, gid)
           THEN GroupRows(Put(grouped, gid, Append(Get(grouped, gid), row)), Tail(rows), key)
           ELSE IF gid \in ObjectPrototypeKeys
                THEN [ threw |-> TRUE, grouped |-> grouped ]
                ELSE GroupRows(Put(grouped, gid, << row >>), Tail(rows), key)

ChangesOverEveryKey(group, index) ==
  IF index > 1
  THEN { k \in Range(ObjectKeys(group[index])) :
           String(Get(group[index], k)) # String(Get(group[index - 1], k)) }
  ELSE {}

\* The changes of group[index]: empty for index 0, otherwise the keys of the
\* row, Found_In_File excepted, whose String() differs from the previous row's.
Changes(group, index) ==
  IF index > 1
  THEN { k \in Range(ObjectKeys(group[index])) :
           /\ k # FoundInFile
           /\ String(Get(group[index], k)) # String(Get(group[index - 1], k)) }
  ELSE {}

DiffGroup(group) ==
  [ index \in DOMAIN group |-> [ row |-> group[index], changes |-> Changes(group, index) ] ]

RECURSIVE FlattenGroups(_)
FlattenGroups(groups) ==
  IF groups = << >> THEN << >> ELSE Head(groups) \o FlattenGroups(Tail(groups))

ConcatGroupsAsOneRun(groups) == DiffGroup(FlattenGroups(groups))

RECURSIVE ConcatGroups(_)
ConcatGroups(groups) ==
  IF groups = << >> THEN << >>
  ELSE DiffGroup(Head(groups)) \o ConcatGroups(Tail(groups))

IsFalsyKeyNever(key) == FALSE

IsFalsyKey(key) == key = Null \/ key = << >>

\* The whole useMemo callback: the returned array, or threw when it raised.
AuditResults(rows, key, q, filters) ==
  IF Len(rows) = 0 \/ IsFalsyKey(key) THEN [ threw |-> FALSE, results |-> << >> ]
  ELSE LET g == GroupRows(<< >>, Filtered(rows, key, q, filters), key)
       IN  IF g.threw THEN [ threw |-> TRUE, results |-> << >> ]
           ELSE [ threw |-> FALSE, results |-> ConcatGroups(ObjectValues(g.grouped)) ]

auditResults == AuditResults(masterData, idKey, primaryQuery, additionalFilters)

filtered == Filtered(masterData, idKey, primaryQuery, additionalFilters)

\* the array auditResults returns
results == auditResults.results

RECURSIVE ChangedCols(_)
ChangedCols(res) ==
  IF res = << >> THEN {} ELSE Head(res).changes \cup ChangedCols(Tail(res))

\* ['Found_In_File', idKey, ...Array.from(changedCols).sort()], empty without
\* results or identifier
SummaryColumnsOnlyWhenChanged(res, key) ==
  IF Len(res) = 0 \/ IsFalsyKey(key) \/ ChangedCols(res) = {} THEN << >>
  ELSE << FoundInFile, key >> \o SortStrings(ChangedCols(res))

SummaryColumns(res, key) ==
  IF Len(res) = 0 \/ IsFalsyKey(key) THEN << >>
  ELSE << FoundInFile, key >> \o SortStrings(ChangedCols(res))

summaryColumns == SummaryColumns(results, idKey)

\* exportToExcel: ['Found_In_File', ...Object.keys(results[0].row) without it];
\* nothing is exported for an empty array
FinalColumns(res) ==
  IF Len(res) = 0 THEN << >>
  ELSE LET IsOther(k) == k # FoundInFile
       IN  << FoundInFile >> \o SelectSeq(ObjectKeys(res[1].row), IsOther)

\* handleDownload passes auditResults
finalColumns == FinalColumns(results)

----------------------------------------------------------------------------
\* The revision of src/App.tsx: one query box, no secondary filters, no
\* grouping.  Its files state and upload code are those above; its query box
\* writes searchQuery, the cell modelled by primaryQuery.
searchQuery == primaryQuery

\* Object.keys(firstRow).find(k => ...) || null, null without rows
App_IdKey(rows) ==
  IF Len(rows) = 0 THEN Null
  ELSE LET keys == ObjectKeys(rows[1])
           hits == { p \in DOMAIN keys : IsLoanColumn(keys[p]) }
       IN  IF hits = {} THEN Null
           ELSE keys[CHOOSE p \in hits : \A p2 \in hits : p <= p2]

App_idKey == App_IdKey(masterData)

\* String(row[idKey]).trim().toLowerCase() === searchQuery.trim().toLowerCase()
App_Matches(row, key, q) ==
  ToLowerCase(Trim(String(Get(row, key)))) = ToLowerCase(Trim(q))

\* the changes of filtered[index]: every row but the first is compared with
\* the row before it in the filtered sequence
App_Changes(rows, index) ==
  IF index > 1
  THEN { k \in Range(ObjectKeys(rows[index])) :
           /\ k # FoundInFile
           /\ String(Get(rows[index], k)) # String(Get(rows[index - 1], k)) }
  ELSE {}

App_AuditResults(rows, key, q) ==
  IF q = << >> \/ IsFalsyKey(key) \/ Len(rows) = 0 THEN << >>
  ELSE LET Keep(row) == App_Matches(row, key, q)
           kept == SelectSeq(rows, Keep)
       IN  [ index \in DOMAIN kept |->
               [ row |-> kept[index], changes |-> App_Changes(kept, index) ] ]

App_auditResults == App_AuditResults(masterData, App_idKey, searchQuery)

App_SummaryColumns(res, key) ==
  IF Len(res) = 0 \/ IsFalsyKey(key) THEN << >>
  ELSE << FoundInFile, key >> \o SortStrings(ChangedCols(res))

App_summaryColumns == App_SummaryColumns(App_auditResults, App_idKey)

\* which of the three status panels is rendered
App_StatusPanel ==
  IF Len(files) = 0 THEN "System Ready"
  ELSE IF Len(App_auditResults) = 0 /\ searchQuery # << >> THEN "Record Not Found"
  ELSE "Audit Matching Success"

\* the number the success panel prints: summaryColumns.length - 2
App_FieldsWithVariations == Len(App_summaryColumns) - 2

(***************************************************************************)
(* Specification                                                           *)
(***************************************************************************)

\* the number of files of the uploads in flight
InFlight ==
  LET Count[i \in 0 .. Len(uploads)] ==
        IF i = 0 THEN 0 ELSE Count[i - 1] + Len(uploads[i].picked)
  IN  Count[Len(uploads)]

\* the selections of one or two files of a set of catalogue entries
Picks(entries) ==
  { << a >> : a \in entries } \cup { << a, b >> : a \in entries, b \in entries }

Init ==
  /\ files = << >>
  /\ primaryQuery = InitialQuery
  /\ additionalFilters = << >>
  /\ loading = FALSE
  /\ uploads = << >>

\* The user works on every file of the catalogue, types queries and edits
\* filters, and starts an upload when none is in flight; every decode completes.
Next ==
  \/ \E picked \in Picks(DOMAIN Catalogue) :
       /\ uploads = << >>
       /\ Len(files) + Len(picked) <= MaxFiles
       /\ ProcessFiles(picked)
  \/ \E u \in DOMAIN uploads : \E i \in DOMAIN uploads[u].promises : ParseComplete(u, i)
  \/ \E u \in DOMAIN uploads : PromiseAllThen(u)
  \/ ClearFiles
  \/ \E index \in DOMAIN files : RemoveFile(index)
  \/ \E q \in Queries : SetPrimaryQuery(q)
  \/ \E id \in FilterIds : AddFilter(id)
  \/ \E id \in FilterIds : RemoveFilter(id)
  \/ \E id \in FilterIds : \E column \in Range(availableColumns) : UpdateFilterColumn(id, column)
  \/ \E id \in FilterIds : \E value \in FilterValues : UpdateFilterValue(id, value)

Spec == Init /\ [][Next]_vars

\* The user starts uploads of the files of IngestEntries at any time, also
\* while others are in flight, a decode may fail, and files are cleared and
\* removed; the query and the filters keep their initial values.
NextIngest ==
  \/ \E picked \in Picks(IngestEntries) :
       /\ Len(files) + InFlight + Len(picked) <= MaxIngest
       /\ ProcessFiles(picked)
  \/ \E u \in DOMAIN uploads : \E i \in DOMAIN uploads[u].promises : ParseComplete(u, i)
  \/ \E u \in DOMAIN uploads : \E i \in DOMAIN uploads[u].promises : ParseError(u, i)
  \/ \E u \in DOMAIN uploads : PromiseAllThen(u)
  \/ ClearFiles
  \/ \E index \in DOMAIN files : RemoveFile(index)

SpecIngest == Init /\ [][NextIngest]_vars

\* the catalogue entries used with the revision of src/App.tsx
AppEntries == { 1, 2, 4 }

\* The user of the revision of src/App.tsx uploads files when no upload is in
\* flight, removes files, clears the list and types queries; there are no
\* secondary filters.
NextApp ==
  \/ \E picked \in Picks(AppEntries) :
       /\ uploads = << >>
       /\ Len(files) + Len(picked) <= MaxFiles
       /\ ProcessFiles(picked)
  \/ \E u \in DOMAIN uploads : \E i \in DOMAIN uploads[u].promises : ParseComplete(u, i)
  \/ \E u \in DOMAIN uploads : PromiseAllThen(u)
  \/ ClearFiles
  \/ \E index \in DOMAIN files : RemoveFile(index)
  \/ \E q \in Queries : SetPrimaryQuery(q)

SpecApp == Init /\ [][NextApp]_vars

(***************************************************************************)
(* Properties                                                              *)
(***************************************************************************)

\* position in the filtered sequence of the first row with identifier g
FirstFiltered(g) ==
  CHOOSE p \in DOMAIN filtered :
    /\ GroupId(filtered[p], idKey) = g
    /\ \A p2 \in 1 .. (p - 1) : GroupId(filtered[p2], idKey) # g

\* C1: groups are emitted in the order in which their identifier first
\* appears in the filtered sequence: if the first filtered row of g precedes
\* the first filtered row of h, every result of g precedes every result of h.
C1_GroupsInFirstAppearanceOrder ==
  ~auditResults.threw =>
    \A i \in DOMAIN results : \A j \in DOMAIN results :
      FirstFiltered(GroupId(results[i].row, idKey))
        < FirstFiltered(GroupId(results[j].row, idKey))
      => i < j

\* result i has an earlier result of the same identifier group
HasPredecessor(i) ==
  \E j \in 1 .. (i - 1) : GroupId(results[j].row, idKey) = GroupId(results[i].row, idKey)

\* the nearest earlier result of the same identifier group
Predecessor(i) ==
  CHOOSE j \in 1 .. (i - 1) :
    /\ GroupId(results[j].row, idKey) = GroupId(results[i].row, idKey)
    /\ \A j2 \in (j + 1) .. (i - 1) :
         GroupId(results[j2].row, idKey) # GroupId(results[i].row, idKey)

EitherRowColumns(row, prev) ==
  (Range(ObjectKeys(row)) \cup Range(ObjectKeys(prev))) \ { FoundInFile }

\* C2: for every result that is not the first of its group, changes is
\* exactly the set of columns of either row, Found_In_File excepted, whose
\* string-coerced values differ between the row and its predecessor.
C2_ChangesOverEitherRow ==
  ~auditResults.threw =>
    \A i \in DOMAIN results :
      HasPredecessor(i) =>
        results[i].changes =
          { c \in EitherRowColumns(results[i].row, results[Predecessor(i)].row) :
              String(Get(results[i].row, c)) # String(Get(results[Predecessor(i)].row, c)) }

\* one of the two rows lacks column c, the other has it
OneLacks(a, b, c) ==
  \/ ~HasOwn(a, c) /\ HasOwn(b, c)
  \/ HasOwn(a, c) /\ ~HasOwn(b, c)

\* the value of c in the one of the two rows that has it
PresentValue(a, b, c) == IF HasOwn(a, c) THEN Get(a, c) ELSE Get(b, c)

\* C3: in the diff a missing value equals the empty string and no other
\* string: when one of two consecutive rows of a group lacks c, c is in
\* changes exactly when the other row's value of c is not empty.
C3_MissingEqualsEmpty ==
  ~auditResults.threw =>
    \A i \in DOMAIN results :
      HasPredecessor(i) =>
        \A c \in EitherRowColumns(results[i].row, results[Predecessor(i)].row) :
          OneLacks(results[i].row, results[Predecessor(i)].row, c) =>
            ( c \in results[i].changes
                <=> PresentValue(results[i].row, results[Predecessor(i)].row, c) # << >> )

\* C4: the computation of auditResults never raises.
C4_NeverRaises == ~auditResults.threw

\* the row's value differs from an accepted literal of q at most by
\* surrounding white space and letter case
EqualsUpToTrimAndCase(row, column, q) ==
  \E i \in DOMAIN AcceptedValues(q) :
    ToLowerCase(Trim(String(OrEmpty(Get(row, column))))) = AcceptedValues(q)[i]

\* C5: a row whose value differs from an accepted literal only by leading or
\* trailing white space or letter case passes the check, for the primary
\* query and for every active secondary filter.
C5_ComparedTrimmedAndLowercased ==
  ~IsFalsyKey(idKey) =>
    \A r \in DOMAIN masterData :
      /\ ( HasPrimaryQuery(primaryQuery)
             /\ EqualsUpToTrimAndCase(masterData[r], idKey, primaryQuery) )
           => MatchesQuery(masterData[r], idKey, primaryQuery)
      /\ \A f \in DOMAIN ActiveAdditional(additionalFilters) :
           EqualsUpToTrimAndCase(masterData[r], ActiveAdditional(additionalFilters)[f].column,
                                 ActiveAdditional(additionalFilters)[f].value)
           => MatchesQuery(masterData[r], ActiveAdditional(additionalFilters)[f].column,
                           ActiveAdditional(additionalFilters)[f].value)

\* the pieces of q that are not empty after trimming, joined by commas
RECURSIVE JoinComma(_)
JoinComma(pieces) ==
  IF pieces = << >> THEN << >>
  ELSE IF Len(pieces) = 1 THEN Head(pieces)
  ELSE Head(pieces) \o << "," >> \o JoinComma(Tail(pieces))

WithoutEmptyPieces(q) ==
  LET NotEmpty(piece) == Trim(piece) # << >>
  IN  JoinComma(SelectSeq(SplitComma(q), NotEmpty))

\* C6: empty pieces of a non-empty primary query are discarded: a row whose
\* identifier value is empty or absent does not pass the primary check, and
\* the retained rows are those retained for the query without its empty pieces.
C6_EmptyPiecesDiscarded ==
  ( ~IsFalsyKey(idKey) /\ HasPrimaryQuery(primaryQuery) ) =>
    /\ \A r \in DOMAIN masterData :
         OrEmpty(Get(masterData[r], idKey)) = << >>
           => ~MatchesQuery(masterData[r], idKey, primaryQuery)
    /\ filtered = Filtered(masterData, idKey, WithoutEmptyPieces(primaryQuery),
                           additionalFilters)

\* C7: a row that does not have the column of an active secondary filter is
\* not in the filter's output, whatever the filter's value.
C7_AbsentColumnExcluded ==
  ~IsFalsyKey(idKey) =>
    \A f \in DOMAIN ActiveAdditional(additionalFilters) :
      \A r \in DOMAIN filtered :
        HasOwn(filtered[r], ActiveAdditional(additionalFilters)[f].column)

\* the columns of the pool in the order in which its rows first show them
discoveredColumns == DiscoveredColumns(<< >>, masterData)

FirstDiscoveredLoanColumn ==
  discoveredColumns[CHOOSE i \in DOMAIN discoveredColumns :
                      /\ IsLoanColumn(discoveredColumns[i])
                      /\ \A j \in 1 .. (i - 1) : ~IsLoanColumn(discoveredColumns[j])]

\* C8: the identifier is the first column in discovery order whose lowercase
\* name contains a loan-number needle, and the first discovered column when
\* none does.
C8_FirstDiscoveredColumn ==
  Len(discoveredColumns) > 0 =>
    idKey = IF \E i \in DOMAIN discoveredColumns : IsLoanColumn(discoveredColumns[i])
            THEN FirstDiscoveredLoanColumn
            ELSE discoveredColumns[1]

\* C9: every row of the pool carries the name of the file it was read from
\* under Found_In_File, and every result's row carries the same value as the
\* pool row it is.
C9_TaggedWithSourceFile ==
  /\ \A f \in DOMAIN files : \A r \in DOMAIN files[f].data :
       Get(files[f].data[r], FoundInFile) = files[f].name
  /\ \A i \in DOMAIN results : \E r \in DOMAIN masterData : results[i].row = masterData[r]

\* every decode of upload u is over, and at least one gave its file's rows
Settled(u) ==
  /\ \A i \in DOMAIN uploads[u].promises : uploads[u].promises[i].state # "parsing"
  /\ \E i \in DOMAIN uploads[u].promises : uploads[u].promises[i].state = "fulfilled"

\* C10: a decode failure of one file does not keep the other files of the
\* upload out of the file list: once every decode of an upload is over, the
\* step that appends its decoded files can be taken.
C10_FailureDoesNotBlockOthers ==
  \A u \in DOMAIN uploads : Settled(u) => ENABLED PromiseAllThen(u)

----------------------------------------------------------------------------
\* some decode of some upload has not called back yet
Ingesting ==
  \E u \in DOMAIN uploads : \E i \in DOMAIN uploads[u].promises :
    uploads[u].promises[i].state = "parsing"

\* C11 as stated: whenever the file list from which auditResults is computed
\* is non-empty, no upload is still being decoded.
C11_NoResultsWhileIngesting == Len(files) > 0 => ~Ingesting

\* the files a batch delivers when all of its decodes have completed
BatchFiles(u) ==
  [ i \in DOMAIN uploads[u].picked |-> CompleteValue(Catalogue[uploads[u].picked[i]]) ]

\* C11, amended: the file list from which auditResults is computed never holds
\* part of a batch that is still in flight; it grows only by the whole of one
\* batch, all of whose decodes have completed, and that batch is then no
\* longer pending.  Files of earlier batches are used while a later one is
\* being decoded.
C11_PoolGrowsByCompletedBatches ==
  [][ Len(files') > Len(files) =>
        \E u \in DOMAIN uploads :
          /\ \A i \in DOMAIN uploads[u].promises :
               uploads[u].promises[i].state = "fulfilled"
          /\ files' = files \o BatchFiles(u)
          /\ uploads' = RemoveAt(uploads, u) ]_vars

\* auditResults is computed from an earlier batch's rows while a later batch of two files
\* has one decode completed and one outstanding
C11_Witness ==
  /\ Len(masterData) > 0
  /\ ~auditResults.threw
  /\ \E u \in DOMAIN uploads :
       /\ Len(uploads[u].promises) = 2
       /\ uploads[u].promises[1].state = "fulfilled"
       /\ uploads[u].promises[2].state = "parsing"

----------------------------------------------------------------------------
\* the number of rows of the first n files of the list
RECURSIVE RowCount(_)
RowCount(n) == IF n = 0 THEN 0 ELSE RowCount(n - 1) + Len(files[n].data)

\* C12: the pool is the concatenation, in the order of the file list, of each
\* file's decoded rows in the file's own order: row r of the f-th file is at
\* position (rows of the files before f) + r, and the pool's length is the sum
\* of the files' row counts.
C12_PoolIsConcatenation ==
  /\ Len(masterData) = RowCount(Len(files))
  /\ \A f \in DOMAIN files :
       /\ \E c \in DOMAIN Catalogue : files[f] = CompleteValue(Catalogue[c])
       /\ \A r \in DOMAIN files[f].data :
            masterData[RowCount(f - 1) + r] = files[f].data[r]

\* two different files are listed, the first with several rows
C12_Witness ==
  /\ Len(files) = 2
  /\ files[1] # files[2]
  /\ Len(files[1].data) > 1
  /\ Len(masterData) > Len(files[1].data)

----------------------------------------------------------------------------
\* C13: the first result of every identifier group has an empty changes set,
\* whatever row precedes it in the output.
C13_FirstOfGroupHasNoChanges ==
  LET audit == auditResults
      res == audit.results
      key == idKey
      IsFirstOfGroup(i) ==
        \A j \in 1 .. (i - 1) : GroupId(res[j].row, key) # GroupId(res[i].row, key)
  IN  ~audit.threw =>
        \A i \in DOMAIN res : IsFirstOfGroup(i) => res[i].changes = {}

\* a group's first result follows a result of another group whose row differs
\* from it in a column other than Found_In_File
C13_Witness ==
  /\ ~auditResults.threw
  /\ \E i \in DOMAIN results :
       /\ i > 1
       /\ ~HasPredecessor(i)
       /\ \E k \in Range(ObjectKeys(results[i].row)) \ { FoundInFile } :
            String(Get(results[i].row, k)) # String(Get(results[i - 1].row, k))

----------------------------------------------------------------------------
\* C14: the output is group-major: the results whose rows have the same
\* identifier string form one contiguous run, and within the run the rows are
\* in the order they have in the filtered sequence.
C14_GroupMajor ==
  LET audit == auditResults
      res == audit.results
      key == idKey
      flt == filtered
      resRows == [ i \in DOMAIN res |-> res[i].row ]
      RowsOf(rows, g) ==
        LET InGroup(row) == GroupId(row, key) = g
        IN  SelectSeq(rows, InGroup)
  IN  ~audit.threw =>
        /\ \A i \in DOMAIN res : \A k \in DOMAIN res :
             i < k /\ GroupId(res[i].row, key) = GroupId(res[k].row, key)
             => \A j \in i .. k : GroupId(res[j].row, key) = GroupId(res[i].row, key)
        /\ \A i \in DOMAIN res :
             RowsOf(resRows, GroupId(res[i].row, key))
               = RowsOf(flt, GroupId(res[i].row, key))

\* in the filtered sequence a row of another identifier stands between two
\* different rows of one identifier, and results are returned
C14_Witness ==
  /\ ~auditResults.threw
  /\ Len(results) > 0
  /\ \E p \in DOMAIN filtered : \E q \in DOMAIN filtered : \E r \in DOMAIN filtered :
       /\ p < q /\ q < r
       /\ filtered[p] # filtered[r]
       /\ GroupId(filtered[p], idKey) = GroupId(filtered[r], idKey)
       /\ GroupId(filtered[p], idKey) # GroupId(filtered[q], idKey)

----------------------------------------------------------------------------
\* the number of positions of rows that hold row
Occurrences(rows, row) == Cardinality({ p \in DOMAIN rows : rows[p] = row })

\* C15: when the Filter Engine has run (the pool is non-empty and the
\* identifier column is resolved) and auditResults returns, there is exactly
\* one result per filtered row: the two sequences have the same length and
\* every row occurs as often among the results as in the filtered sequence.
C15_OneResultPerFilteredRow ==
  LET audit == auditResults
      res == audit.results
      flt == filtered
      resRows == [ i \in DOMAIN res |-> res[i].row ]
  IN  ~audit.threw /\ Len(masterData) # 0 /\ ~IsFalsyKey(idKey) =>
        /\ Len(res) = Len(flt)
        /\ \A row \in Range(flt) \cup Range(resRows) :
             Occurrences(resRows, row) = Occurrences(flt, row)

\* results are returned for several filtered rows, one of them occurring
\* twice, in an order other than that of the filtered sequence
C15_Witness ==
  /\ ~auditResults.threw
  /\ Len(results) > 2
  /\ [ i \in DOMAIN results |-> results[i].row ] # filtered
  /\ \E p \in DOMAIN filtered : \E q \in DOMAIN filtered :
       p # q /\ filtered[p] = filtered[q]

----------------------------------------------------------------------------
\* C16: no result's changes set contains Found_In_File, also when consecutive
\* rows of a group come from different files.
C16_FoundInFileNeverChanged ==
  LET audit == auditResults
      res == audit.results
  IN  \A i \in DOMAIN res : FoundInFile \notin res[i].changes

\* two consecutive results of one identifier group have different
\* Found_In_File values
C16_Witness ==
  /\ ~auditResults.threw
  /\ \E i \in DOMAIN results :
       /\ i > 1
       /\ GroupId(results[i].row, idKey) = GroupId(results[i - 1].row, idKey)
       /\ String(Get(results[i].row, FoundInFile))
            # String(Get(results[i - 1].row, FoundInFile))

----------------------------------------------------------------------------
\* s is empty or holds white space only
IsBlank(s) == \A p \in DOMAIN s : IsWhiteSpace(s[p])

\* C17: when the primary query is empty or only white space and the identifier
\* column is resolved, the primary check is skipped: the filtered sequence is
\* the pool's rows that pass every active secondary filter, in pool order, and
\* the whole pool when no filter is active.
C17_BlankQuerySkipsPrimaryCheck ==
  LET flt == filtered
      pool == masterData
      active == ActiveAdditional(additionalFilters)
      PassesActive(row) ==
        \A i \in DOMAIN active : MatchesQuery(row, active[i].column, active[i].value)
  IN  IsBlank(primaryQuery) /\ ~IsFalsyKey(idKey) =>
        /\ flt = SelectSeq(pool, PassesActive)
        /\ active = << >> => flt = pool

\* the query is one blank, and an active filter keeps some rows of the pool
\* and drops others
C17_Witness ==
  /\ primaryQuery = qBlank
  /\ ~IsFalsyKey(idKey)
  /\ ActiveAdditional(additionalFilters) # << >>
  /\ Len(filtered) > 0
  /\ Len(filtered) < Len(masterData)

----------------------------------------------------------------------------
\* the filters with a column and a value that is not blank
Constraining ==
  LET HasColumnAndValue(f) == f.column # << >> /\ ~IsBlank(f.value)
  IN  SelectSeq(additionalFilters, HasColumnAndValue)

----------------------------------------------------------------------------
\* sub is obtained from rows by deleting elements
RECURSIVE IsSubsequence(_, _)
IsSubsequence(sub, rows) ==
  IF sub = << >> THEN TRUE
  ELSE IF rows = << >> THEN FALSE
  ELSE IF Head(sub) = Head(rows) THEN IsSubsequence(Tail(sub), Tail(rows))
  ELSE IsSubsequence(sub, Tail(rows))

\* C19: the Filter Engine's output is a subsequence of the pool: every
\* retained row is a pool row, pool order is kept, and no row occurs more
\* often than in the pool.
C19_FilteredIsSubsequenceOfPool ==
  LET flt == filtered
      pool == masterData
  IN  /\ IsSubsequence(flt, pool)
      /\ \A row \in Range(flt) : Occurrences(flt, row) <= Occurrences(pool, row)

\* several different rows are retained and some pool row is dropped
C19_Witness ==
  /\ ~IsFalsyKey(idKey)
  /\ Len(filtered) > 1
  /\ Len(filtered) < Len(masterData)
  /\ filtered[1] # filtered[2]

----------------------------------------------------------------------------
\* no file is loaded, or no loaded row has a column other than Found_In_File
NoIdentifierColumn ==
  \A p \in DOMAIN masterData : Range(ObjectKeys(masterData[p])) \subseteq { FoundInFile }

\* C20: when the identifier column cannot be resolved, auditResults and
\* summaryColumns are both empty, whatever the primary query and the secondary
\* filters are, and nothing is raised.
C20_UnresolvedIdentifierGivesNothing ==
  LET audit == auditResults
  IN  NoIdentifierColumn =>
        /\ idKey = Null
        /\ ~audit.threw
        /\ audit.results = << >>
        /\ SummaryColumns(audit.results, idKey) = << >>

\* rows are loaded, none has a column besides Found_In_File, the primary
\* query is blank and a secondary filter is listed
C20_Witness ==
  /\ Len(masterData) > 0
  /\ NoIdentifierColumn
  /\ IsBlank(primaryQuery)
  /\ additionalFilters # << >>

----------------------------------------------------------------------------
\* C21: when auditResults is non-empty, summaryColumns is Found_In_File, the
\* identifier column, and then, in ascending order, exactly the columns that
\* occur in at least one changes set.
C21_SummaryColumnsExact ==
  LET audit == auditResults
      res == audit.results
      key == idKey
      cols == SummaryColumns(res, key)
      changed == UNION { res[i].changes : i \in DOMAIN res }
  IN  Len(res) > 0 =>
        /\ Len(cols) = 2 + Cardinality(changed)
        /\ cols[1] = FoundInFile
        /\ cols[2] = key
        /\ { cols[p] : p \in 3 .. Len(cols) } = changed
        /\ \A p \in 3 .. Len(cols) : \A q \in 3 .. Len(cols) :
             p < q => StrLess(cols[p], cols[q])

\* some column changed, and some other data column of a result row, not the
\* identifier, changed nowhere
C21_Witness ==
  /\ Len(results) > 0
  /\ \E i \in DOMAIN results : results[i].changes # {}
  /\ \E i \in DOMAIN results :
       \E k \in Range(ObjectKeys(results[i].row)) \ { FoundInFile, idKey } :
         \A j \in DOMAIN results : k \notin results[j].changes

----------------------------------------------------------------------------
\* C22: the summary column list never holds the same column name twice, also
\* when the identifier column itself occurs in a changes set.
C22_SummaryColumnsDistinct ==
  LET cols == App_summaryColumns
  IN  \A p \in DOMAIN cols : \A q \in DOMAIN cols : p # q => cols[p] # cols[q]

----------------------------------------------------------------------------
\* C23: the exporter's column order has Found_In_File first, no name twice,
\* every column name of every result row, and so a position for every column
\* of every changes set.
C23_FinalColumnsCoverEveryRow ==
  LET res == auditResults.results
      cols == FinalColumns(res)
  IN  Len(res) > 0 =>
        /\ cols[1] = FoundInFile
        /\ \A p \in DOMAIN cols : \A q \in DOMAIN cols : p # q => cols[p] # cols[q]
        /\ \A i \in DOMAIN res :
             /\ Range(ObjectKeys(res[i].row)) \subseteq Range(cols)
             /\ res[i].changes \subseteq Range(cols)

----------------------------------------------------------------------------
\* A.csv was loaded before B.csv, the primary query is 100 and there is no
\* secondary filter
ScenarioAThenB ==
  /\ files = << CompleteValue(FileA), CompleteValue(FileB) >>
  /\ primaryQuery = q100
  /\ additionalFilters = << >>

----------------------------------------------------------------------------
\* C25: every step that lengthens the file list keeps the listed files at
\* their positions and adds, after them and in one step, all the files of one
\* pending batch in the order in which they were picked, whatever the order in
\* which their decodes completed.
C25_BatchAppendedInPickedOrder ==
  [][ Len(files') > Len(files) =>
        \E u \in DOMAIN uploads :
          LET picked == uploads[u].picked
          IN  /\ Len(files') = Len(files) + Len(picked)
              /\ \A p \in DOMAIN files : files'[p] = files[p]
              /\ \A i \in DOMAIN picked :
                   /\ files'[Len(files) + i].name = Catalogue[picked[i]].name
                   /\ Len(files'[Len(files) + i].data) = Len(Catalogue[picked[i]].rows) ]_vars

\* a file is listed, and of a pending batch of two different files the second
\* has been decoded while the first has not
C25_Witness ==
  /\ Len(files) > 0
  /\ \E u \in DOMAIN uploads :
       /\ Len(uploads[u].picked) = 2
       /\ uploads[u].picked[1] # uploads[u].picked[2]
       /\ Catalogue[uploads[u].picked[1]].name # files[Len(files)].name
       /\ uploads[u].promises[1].state = "parsing"
       /\ uploads[u].promises[2].state = "fulfilled"

----------------------------------------------------------------------------
\* C26: loading is true in every state in which a decode of some upload is
\* outstanding, and false when no upload is pending.
C26_LoadingWhileInFlight ==
  /\ Ingesting => loading
  /\ uploads = << >> => ~loading

----------------------------------------------------------------------------
\* C27: an upload that was in flight when Clear was pressed does not add its
\* files to the list afterwards: a step that lengthens the file list does not
\* complete such an upload.
C27_ClearedUploadAddsNothing ==
  [][ Len(files') > Len(files) =>
        \A u \in DOMAIN uploads :
          uploads[u].stale => uploads' # RemoveAt(uploads, u) ]_vars

----------------------------------------------------------------------------
\* C28: in the revision of src/App.tsx, whenever the success panel is rendered
\* the number of fields with variations it prints, summaryColumns.length - 2,
\* is not negative.
C28_FieldsWithVariationsNotNegative ==
  App_StatusPanel = "Audit Matching Success" => App_FieldsWithVariations >= 0
====
